---- MODULE Spec2Model ----
(***************************************************************************)
(* A model of the mycat family (mycat1, mycat2, mycat4, mycat5, mycat6):   *)
(* five variants of one program that copies a file to standard output,     *)
(* differing in how the I/O buffer is sized and aligned.                   *)
(*                                                                         *)
(* Bytes are symbolic: the byte at file offset i is "byte i".  A byte      *)
(* string is a sequence of runs <<start, len>> standing for the bytes      *)
(* start, start+1, ..., start+len-1 of the file; start = Garbage stands    *)
(* for len bytes that were never read from the file (uninitialised or      *)
(* stale buffer memory).  Adjacent runs are merged, so a byte string has   *)
(* one representation and equality of representations is equality of       *)
(* byte strings for a file whose bytes are pairwise distinguishable.       *)
(***************************************************************************)
EXTENDS Integers, Sequences, FiniteSets, TLC

(***************************************************************************)
(* Bounds of the model.                                                    *)
(***************************************************************************)
\* Width in bits of size_t, uintptr_t and (with its sign bit) long.
WordBits == 24
\* The longest input file is MaxBlocks buffers and one byte.
MaxBlocks == 2
\* How many reads of one run may return fewer bytes than asked for.
MaxShortReads == 2
\* How many aligned buffers the allocation harness holds at once.
MaxLive == 2

(***************************************************************************)
(* Program constants.                                                      *)
(***************************************************************************)
\* sizeof(void*)
PointerWidth == 8
\* The page size used when sysconf(_SC_PAGESIZE) fails.
DefaultPageSize == 4096
\* 2 * 1024 * 1024
OPTIMAL_BUFFER_SIZE == 2097152
\* char buffer[1] of mycat1
NaiveBufferSize == 1
EXIT_SUCCESS == 0
EXIT_FAILURE == 1
\* NULL
NullPtr == 0
\* The exit code of a process that has not exited: no exit code at all.
Running == 0 - 1

WordMod == 2 ^ WordBits
SizeMax == WordMod - 1
LongMax == 2 ^ (WordBits - 1) - 1

(***************************************************************************)
(* Symbolic byte strings.                                                  *)
(***************************************************************************)
\* The start of a run of bytes that are no bytes of the file: no file offset.
Garbage == 0 - 1

Min(a, b) == IF a < b THEN a ELSE b
Max(a, b) == IF a > b THEN a ELSE b

\* The byte string rs followed by the run <<start, len>>.
AppendRun(rs, start, len) ==
    IF len = 0 THEN rs
    ELSE IF rs = <<>> THEN << <<start, len>> >>
    ELSE LET last == rs[Len(rs)]
             joins == IF start = Garbage THEN last[1] = Garbage
                      ELSE last[1] # Garbage /\ last[1] + last[2] = start
         IN IF joins
            THEN [rs EXCEPT ![Len(rs)] = <<last[1], last[2] + len>>]
            ELSE Append(rs, <<start, len>>)

RECURSIVE Concat(_, _)
Concat(rs, ss) ==
    IF ss = <<>> THEN rs
    ELSE Concat(AppendRun(rs, ss[1][1], ss[1][2]), Tail(ss))

RECURSIVE NBytes(_)
NBytes(rs) == IF rs = <<>> THEN 0 ELSE rs[1][2] + NBytes(Tail(rs))

\* The first k bytes of rs.
RECURSIVE TakeBytes(_, _)
TakeBytes(rs, k) ==
    IF k <= 0 \/ rs = <<>> THEN <<>>
    ELSE IF rs[1][2] <= k
         THEN Concat(<< rs[1] >>, TakeBytes(Tail(rs), k - rs[1][2]))
         ELSE << <<rs[1][1], k>> >>

\* rs without its first k bytes.
RECURSIVE DropBytes(_, _)
DropBytes(rs, k) ==
    IF k <= 0 \/ rs = <<>> THEN rs
    ELSE IF rs[1][2] <= k
         THEN DropBytes(Tail(rs), k - rs[1][2])
         ELSE LET s == IF rs[1][1] = Garbage THEN Garbage ELSE rs[1][1] + k
              IN  << <<s, rs[1][2] - k>> >> \o Tail(rs)

\* The contents of a file of n bytes.
FileBytes(n) == IF n = 0 THEN <<>> ELSE << <<0, n>> >>

\* Whether rs is a strict prefix of the file of n bytes.
IsStrictPrefix(rs, n) ==
    \/ rs = <<>> /\ n > 0
    \/ Len(rs) = 1 /\ rs[1][1] = 0 /\ rs[1][2] < n

(***************************************************************************)
(* Machine arithmetic: size_t and uintptr_t are WordBits wide.             *)
(***************************************************************************)
Wrap(x) == x % WordMod

RECURSIVE BitAndN(_, _, _)
BitAndN(a, b, bits) ==
    IF bits = 0 THEN 0
    ELSE (a % 2) * (b % 2) + 2 * BitAndN(a \div 2, b \div 2, bits - 1)

\* a & b
BitAnd(a, b) == BitAndN(a, b, WordBits)
\* ~a
BitNot(a) == SizeMax - a

(***************************************************************************)
(* PageSizeProbe: get_system_page_size (mycat4, mycat5, mycat6).           *)
(* sc is what sysconf(_SC_PAGESIZE) returned.                              *)
(***************************************************************************)
SysconfFailed(sc) == sc = -1

\* The probe without its fallback.
get_system_page_size_nofallback(sc) == sc

get_system_page_size(sc) == IF SysconfFailed(sc) THEN DefaultPageSize ELSE sc

(***************************************************************************)
(* BlockSizeAdvisor: io_blocksize of each variant.                         *)
(***************************************************************************)
\* mycat2: the page size, 4096 when the query fails.
io_blocksize2(sc) == IF sc = -1 THEN DefaultPageSize ELSE sc

\* io_blocksize of mycat4 without the clamp to the page size.
io_blocksize4_noclamp(sc, fstat_ret, st_blksize) ==
    IF fstat_ret = 0 /\ st_blksize > 0 THEN st_blksize ELSE get_system_page_size(sc)

\* mycat4: fstat_ret is what fstat returned, st_blksize what it stored.
io_blocksize4(sc, fstat_ret, st_blksize) ==
    LET page_size == get_system_page_size(sc)
        fs_block_size == IF fstat_ret = 0 THEN st_blksize ELSE 0
        recommended_size == IF fs_block_size > 0 THEN fs_block_size ELSE page_size
    IN  IF recommended_size < page_size THEN page_size ELSE recommended_size

\* mycat5, mycat6: the fixed size.
io_blocksize5 == OPTIMAL_BUFFER_SIZE

(***************************************************************************)
(* AlignedBufferAllocator: the arithmetic of align_alloc and align_free.   *)
(***************************************************************************)
\* The argument of malloc: size + page_size - 1 + sizeof(void*), in size_t.
MallocRequest(size, page_size) == Wrap(size + page_size - 1 + PointerWidth)

\* ((uintptr_t)(original_ptr + sizeof(void*)) + page_size - 1) & ~(page_size - 1)
AlignedAddr(original_ptr, page_size) ==
    BitAnd(Wrap(Wrap(original_ptr + PointerWidth) + page_size - 1),
           BitNot(Wrap(page_size - 1)))

\* aligned_ptr - sizeof(void*): where the original pointer is kept.
StashSlot(aligned_ptr) == Wrap(aligned_ptr - PointerWidth)

(***************************************************************************)
(* Memory and the heap.  A raw block is [base, len]; mem maps the address  *)
(* of a pointer-wide slot to the pointer stored there.                     *)
(***************************************************************************)
\* A pointer that no malloc returned: what a read of a slot nobody wrote gives.
WildPtr == 0 - 1

ReadMem(m, a) == IF a \in DOMAIN m THEN m[a] ELSE WildPtr

WriteMem(m, a, v) == [x \in DOMAIN m \cup {a} |-> IF x = a THEN v ELSE m[x]]

\* Whether malloc may return base for a request of n bytes with heap h live.
Fits(h, base, n) ==
    /\ base # NullPtr
    /\ base + n <= WordMod
    /\ \A b \in h : base # b.base
                    /\ (base + n <= b.base \/ b.base + b.len <= base)

\* *((char**)(aligned_ptr - sizeof(void*))) = original_ptr, the block being n
\* bytes at p: what a later read of the slot may give.  A store outside the
\* block is undefined: the slot may hold the pointer or anything else.
StashOutcomes(p, n, aligned_ptr) ==
    IF p <= StashSlot(aligned_ptr) /\ aligned_ptr <= p + n
    THEN {p} ELSE {p, WildPtr}

\* free(p): the heap afterwards.
HeapAfterFree(h, p) == {b \in h : b.base # p}

\* align_free passing the aligned pointer itself to free.
AlignFreeArgNoStash(m, ptr) == ptr

\* align_free(ptr): the pointer it passes to free, read from the slot before ptr.
AlignFreeArg(m, ptr) == ReadMem(m, StashSlot(ptr))

\* align_free(ptr): the calls of free it adds to the log of calls.
AlignFreeLog(log, m, ptr) ==
    IF ptr = NullPtr THEN log ELSE Append(log, AlignFreeArg(m, ptr))

AlignFreeHeap(h, m, ptr) ==
    IF ptr = NullPtr THEN h ELSE HeapAfterFree(h, AlignFreeArg(m, ptr))

(***************************************************************************)
(* The environment of one run of main.                                     *)
(***************************************************************************)
Variants == {1, 2, 4, 5, 6}
\* argc: no argument, one path, two arguments
Argcs == {1, 2, 3}
\* What sysconf(_SC_PAGESIZE) returns: -1, or the page size, which nothing in
\* the program bounds: two common ones and one above the fixed buffer size.
SysconfRets == {-1, 4096, 65536, 4194304}
FstatRets == {0, -1}
\* st_blksize as fstat stores it: non-positive, below the page, above it, huge.
StBlksizes == {-1, 0, 512, 4096, 131072, LongMax}
\* The file descriptor open returns.
OpenRets == {-1, 3}
CloseRets == {0, -1}
\* posix_fadvise returns 0 or an error number, never -1.
EBADF == 9
EINVAL == 22
ESPIPE == 29
FadviseRets == {0, EBADF, EINVAL, ESPIPE}
\* Where malloc places a block in a run of main.
RawStarts == {16, 4088, 4089}

\* The buffer length the variant reads with, in this environment.
BlockSizeOf(v, sc, fr, blk) ==
    CASE v = 1 -> NaiveBufferSize
      [] v = 2 -> io_blocksize2(sc)
      [] v = 4 -> io_blocksize4(sc, fr, blk)
      [] OTHER -> io_blocksize5

\* Input lengths: empty, short, around each multiple of the buffer length.
FileLens(b) ==
    {0, 1, 14} \cup {k * b - 1 : k \in 1..MaxBlocks}
               \cup {k * b : k \in 1..MaxBlocks}
               \cup {k * b + 1 : k \in 1..MaxBlocks}

\* What read(fd, buf, len) may return at offset p of a file of n bytes.
ReadResults(p, n, len, shorts) ==
    LET m == Min(len, n - p)
    IN  {-1} \cup (IF m = 0 THEN {0} ELSE {m})
             \cup (IF shorts < MaxShortReads THEN {1, m - 1} \cap (1..(m - 1)) ELSE {})

\* What write(1, buf, count) may return.
WriteResults(count) == {count} \cup ({-1, 0, 1, count - 1} \cap (-1..(count - 1)))

(***************************************************************************)
(* State.                                                                  *)
(***************************************************************************)
VARIABLES
    variant, argc, sysconf_ret, fstat_ret, st_blksize, fileLen,
    pc, exit_code,
    fd_open, pos, buffer, buffer_size, bytes_read, bytes_written, bufc,
    out, err,
    heap, mem, free_log,
    live, allocs, null_frees, expect_log, wrapped,
    open_ret, malloc_req, malloc_ret, page_used, fadvise_ret, close_ret,
    close_calls, reads, pos_reads, short_reads, writes, rdata, wreq, failed,
    alloc_size, read_len

envVars == <<variant, argc, sysconf_ret, fstat_ret, st_blksize, fileLen>>
ioVars == <<fd_open, pos, bytes_read, bytes_written, bufc, out>>
memVars == <<heap, mem, free_log>>
logVars == <<open_ret, malloc_req, malloc_ret, page_used, fadvise_ret, close_ret,
             close_calls, reads, pos_reads, short_reads, writes, rdata, wreq, failed,
             alloc_size, read_len>>
harnessVars == <<live, allocs, null_frees, expect_log, wrapped>>
vars == <<envVars, pc, exit_code, ioVars, buffer, buffer_size, err, memVars,
          harnessVars, logVars>>

\* The values of the variables main does not use before it sets them.
Unset == 0 - 1

Init ==
    /\ variant \in Variants
    /\ argc \in Argcs
    /\ sysconf_ret \in SysconfRets
    /\ fstat_ret \in (IF variant = 4 THEN FstatRets ELSE {0})
    /\ st_blksize \in (IF variant = 4 /\ fstat_ret = 0 THEN StBlksizes ELSE {0})
    /\ fileLen \in FileLens(BlockSizeOf(variant, sysconf_ret, fstat_ret, st_blksize))
    /\ pc = "args"
    /\ exit_code = Running
    /\ fd_open = FALSE
    /\ pos = 0
    /\ buffer = NullPtr
    /\ buffer_size = IF variant = 1 THEN NaiveBufferSize ELSE 0
    /\ bytes_read = 0
    /\ bytes_written = 0
    /\ bufc = IF variant = 1 THEN << <<Garbage, NaiveBufferSize>> >> ELSE <<>>
    /\ out = <<>>
    /\ err = <<>>
    /\ heap = {}
    /\ mem = [a \in {} |-> NullPtr]
    /\ free_log = <<>>
    /\ live = {}
    /\ allocs = 0
    /\ null_frees = 0
    /\ expect_log = <<>>
    /\ wrapped = FALSE
    /\ open_ret = Unset
    /\ malloc_req = Unset
    /\ malloc_ret = Unset
    /\ page_used = Unset
    /\ fadvise_ret = Unset
    /\ close_ret = Unset
    /\ close_calls = 0
    /\ reads = 0
    /\ pos_reads = 0
    /\ short_reads = 0
    /\ writes = 0
    /\ rdata = <<>>
    /\ wreq = <<>>
    /\ failed = {}
    /\ alloc_size = Unset
    /\ read_len = Unset

(***************************************************************************)
(* The tests main makes on what its calls return.                          *)
(***************************************************************************)
\* if (argc != 2)
ArgcBad(n) == n # 2
\* if (fd_in == -1)
OpenFailed(fd) == fd = -1
\* if (buffer == NULL)
AllocFailed(p) == p = NullPtr
\* The loop going on at the end of the input.
ReadMoreOrEof(n) == n >= 0

\* while ((bytes_read = read(...)) > 0)
ReadMore(n) == n > 0
\* if (bytes_read == -1)
ReadFailed(n) == n = -1
\* The whole buffer written, whatever the read returned.
WriteCountWholeBuffer(v, n) == IF v = 1 THEN 1 ELSE buffer_size

\* the count main passes to write: 1 in mycat1, bytes_read in the others
WriteCount(v, n) == IF v = 1 THEN 1 ELSE n
\* Only an error of write taken for a failure, a short write not.
WriteFailedOnlyOnError(v, w, n) == w < 0

\* if (bytes_written != bytes_read); if (write(...) != 1) in mycat1
WriteFailed(v, w, n) == IF v = 1 THEN w # 1 ELSE w # n
\* The result of close ignored.
CloseNeverFails(r) == FALSE

\* if (close(fd_in) == -1)
CloseFailed(r) == r = -1
\* if (posix_fadvise(fd_in, 0, 0, POSIX_FADV_SEQUENTIAL) == -1)
FadviseFailed(r) == r = -1

\* Whether the variant allocates its buffer with align_alloc.
Aligns(v) == v \in {4, 5, 6}

\* The calls of free after the variant released its buffer.
ReleaseLog(v) ==
    CASE v = 1 -> free_log
      [] v = 2 -> Append(free_log, buffer)
      [] OTHER -> AlignFreeLog(free_log, mem, buffer)

ReleaseHeap(v) ==
    CASE v = 1 -> heap
      [] v = 2 -> HeapAfterFree(heap, buffer)
      [] OTHER -> AlignFreeHeap(heap, mem, buffer)

\* exit(code), or the return from main.
Exit(code) == pc' = "exited" /\ exit_code' = code

\* close(fd_in) with its result ignored, then the release of the buffer, then exit.
CloseFreeExit ==
    /\ fd_open' = FALSE
    /\ close_calls' = close_calls + 1
    /\ free_log' = ReleaseLog(variant)
    /\ heap' = ReleaseHeap(variant)
    /\ Exit(EXIT_FAILURE)

(***************************************************************************)
(* main, one action per step.                                              *)
(***************************************************************************)
\* 1. The argument count.
CheckArgs ==
    /\ pc = "args"
    /\ IF ArgcBad(argc)
       THEN /\ err' = Append(err, "usage")
            /\ Exit(EXIT_FAILURE)
       ELSE /\ err' = err
            /\ pc' = IF variant = 2 THEN "blocksize" ELSE "open"
            /\ exit_code' = exit_code
    /\ failed' = IF argc # 2 THEN failed \cup {"argc"} ELSE failed
    /\ UNCHANGED <<envVars, ioVars, buffer, buffer_size, memVars, harnessVars, open_ret,
                   malloc_req, malloc_ret, page_used, fadvise_ret, close_ret,
                   close_calls, reads, pos_reads, short_reads, writes, rdata, wreq,
                   alloc_size, read_len>>

\* open(argv[1], O_RDONLY).  mycat2 has its buffer by now and frees it on failure.
Open ==
    /\ pc = "open"
    /\ \E fd \in OpenRets :
        /\ open_ret' = fd
        /\ failed' = IF fd = -1 THEN failed \cup {"open"} ELSE failed
        /\ IF OpenFailed(fd)
           THEN /\ err' = Append(err, "open")
                /\ fd_open' = fd_open
                /\ free_log' = IF variant = 2 THEN Append(free_log, buffer) ELSE free_log
                /\ heap' = IF variant = 2 THEN HeapAfterFree(heap, buffer) ELSE heap
                /\ Exit(EXIT_FAILURE)
           ELSE /\ err' = err
                /\ fd_open' = TRUE
                /\ UNCHANGED <<free_log, heap, exit_code>>
                /\ pc' = CASE variant = 6 -> "fadvise"
                           [] variant \in {4, 5} -> "blocksize"
                           [] OTHER -> "read"
    /\ UNCHANGED <<envVars, pos, bytes_read, bytes_written, bufc, out, buffer,
                   buffer_size, mem, harnessVars, malloc_req, malloc_ret, page_used,
                   fadvise_ret, close_ret, close_calls, reads, pos_reads, short_reads, writes,
                   rdata, wreq,
                   alloc_size, read_len>>

\* mycat6: posix_fadvise(fd_in, 0, 0, POSIX_FADV_SEQUENTIAL).
Fadvise ==
    /\ pc = "fadvise"
    /\ \E r \in FadviseRets :
        /\ fadvise_ret' = r
        /\ err' = Append(err, IF FadviseFailed(r) THEN "warn_fadvise" ELSE "fadvise_ok")
    /\ pc' = "blocksize"
    /\ UNCHANGED <<envVars, exit_code, ioVars, buffer, buffer_size, memVars, harnessVars,
                   open_ret, malloc_req, malloc_ret, page_used, close_ret,
                   close_calls, reads, pos_reads, short_reads, writes, rdata, wreq, failed,
                   alloc_size, read_len>>

\* The warnings of one call of the page-size probe.
ProbeLog(log) == IF SysconfFailed(sysconf_ret) THEN Append(log, "warn_pagesize") ELSE log

\* buffer_size = io_blocksize(...), and the line that reports it.
BlockSize ==
    /\ pc = "blocksize"
    /\ buffer_size' = BlockSizeOf(variant, sysconf_ret, fstat_ret, st_blksize)
    /\ err' = LET probed == IF variant \in {2, 4} THEN ProbeLog(err) ELSE err
                  statted == IF variant = 4 /\ fstat_ret # 0
                             THEN Append(probed, "warn_fstat") ELSE probed
              IN  Append(statted, "bufsize")
    /\ pc' = "alloc"
    /\ UNCHANGED <<envVars, exit_code, ioVars, buffer, memVars, harnessVars, logVars>>

\* mycat2: buffer = malloc(buffer_size), before the file is opened.
Malloc ==
    /\ pc = "alloc"
    /\ variant = 2
    /\ \E p \in {NullPtr} \cup {r \in RawStarts : Fits(heap, r, buffer_size)} :
        /\ malloc_req' = buffer_size
        /\ malloc_ret' = p
        /\ buffer' = p
        /\ failed' = IF p = NullPtr THEN failed \cup {"alloc"} ELSE failed
        /\ IF AllocFailed(p)
           THEN /\ err' = Append(err, "alloc")
                /\ Exit(EXIT_FAILURE)
                /\ UNCHANGED <<heap, bufc>>
           ELSE /\ err' = err
                /\ heap' = heap \cup {[base |-> p, len |-> buffer_size]}
                /\ bufc' = AppendRun(<<>>, Garbage, buffer_size)
                /\ pc' = "open"
                /\ exit_code' = exit_code
    /\ UNCHANGED <<envVars, fd_open, pos, bytes_read, bytes_written, out,
                   buffer_size, mem, free_log, harnessVars, open_ret, page_used,
                   fadvise_ret, close_ret, close_calls, reads, pos_reads, short_reads, writes,
                   rdata, wreq,
                   alloc_size, read_len>>

\* mycat4, mycat5, mycat6: buffer = align_alloc(buffer_size), the file being open.
AlignAlloc ==
    /\ pc = "alloc"
    /\ Aligns(variant)
    /\ LET page_size == get_system_page_size(sysconf_ret)
           request == MallocRequest(buffer_size, page_size)
       IN  \E p \in {NullPtr} \cup {r \in RawStarts : Fits(heap, r, request)} :
            LET aligned_ptr == AlignedAddr(p, page_size)
                result == IF p = NullPtr THEN NullPtr ELSE aligned_ptr
            IN  /\ page_used' = page_size
                /\ alloc_size' = buffer_size
                /\ malloc_req' = request
                /\ malloc_ret' = p
                /\ buffer' = result
                /\ failed' = IF p = NullPtr THEN failed \cup {"alloc"} ELSE failed
                /\ \E kept \in StashOutcomes(p, request, aligned_ptr) :
                     mem' = IF p = NullPtr THEN mem
                            ELSE WriteMem(mem, StashSlot(aligned_ptr), kept)
                /\ heap' = IF p = NullPtr THEN heap
                           ELSE heap \cup {[base |-> p, len |-> request]}
                /\ IF AllocFailed(result)
                   THEN /\ err' = Append(ProbeLog(err), "alloc")
                        /\ fd_open' = FALSE
                        /\ close_calls' = close_calls + 1
                        /\ Exit(EXIT_FAILURE)
                        /\ bufc' = bufc
                   ELSE /\ err' = ProbeLog(err)
                        /\ bufc' = AppendRun(<<>>, Garbage, buffer_size)
                        /\ pc' = "read"
                        /\ UNCHANGED <<fd_open, close_calls, exit_code>>
    /\ UNCHANGED <<envVars, pos, bytes_read, bytes_written, out, buffer_size,
                   free_log, harnessVars, open_ret, fadvise_ret, close_ret, reads, pos_reads,
                   short_reads, writes, rdata, wreq,
                   read_len>>

\* bytes_read = read(fd_in, buffer, buffer_size), the loop test and the test after it.
Read ==
    /\ pc = "read"
    /\ \E n \in ReadResults(pos, fileLen, buffer_size, short_reads) :
        /\ bytes_read' = n
        /\ reads' = reads + 1
        /\ read_len' = buffer_size
        /\ pos_reads' = IF n > 0 THEN pos_reads + 1 ELSE pos_reads
        /\ short_reads' = IF 0 < n /\ n < Min(buffer_size, fileLen - pos)
                          THEN short_reads + 1 ELSE short_reads
        /\ pos' = IF n > 0 THEN pos + n ELSE pos
        /\ bufc' = IF n > 0
                   THEN Concat(<< <<pos, n>> >>, DropBytes(bufc, n))
                   ELSE bufc
        /\ rdata' = IF n > 0 THEN AppendRun(rdata, pos, n) ELSE rdata
        /\ failed' = IF n = -1 THEN failed \cup {"read"} ELSE failed
        /\ IF ReadMore(n)
           THEN /\ pc' = "write"
                /\ UNCHANGED <<err, fd_open, close_calls, free_log, heap, exit_code>>
           ELSE IF ReadFailed(n)
           THEN /\ err' = Append(err, "read")
                /\ CloseFreeExit
           ELSE /\ pc' = "close"
                /\ UNCHANGED <<err, fd_open, close_calls, free_log, heap, exit_code>>
    /\ UNCHANGED <<envVars, bytes_written, out, buffer, buffer_size, mem, harnessVars,
                   open_ret, malloc_req, malloc_ret, page_used, fadvise_ret,
                   close_ret, writes, wreq,
                   alloc_size>>

\* bytes_written = write(STDOUT_FILENO, buffer, bytes_read), and its test.
Write ==
    /\ pc = "write"
    /\ LET count == WriteCount(variant, bytes_read)
       IN  \E w \in WriteResults(count) :
            /\ bytes_written' = w
            /\ writes' = writes + 1
            /\ wreq' = Concat(wreq, TakeBytes(bufc, count))
            /\ out' = Concat(out, TakeBytes(bufc, w))
            /\ failed' = IF w # count THEN failed \cup {"write"} ELSE failed
            /\ IF WriteFailed(variant, w, bytes_read)
               THEN /\ err' = Append(err, "write")
                    /\ CloseFreeExit
               ELSE /\ pc' = "read"
                    /\ UNCHANGED <<err, fd_open, close_calls, free_log, heap,
                                   exit_code>>
    /\ UNCHANGED <<envVars, pos, bytes_read, bufc, buffer, buffer_size, mem, harnessVars,
                   open_ret, malloc_req, malloc_ret, page_used, fadvise_ret,
                   close_ret, reads, pos_reads, short_reads, rdata,
                   alloc_size, read_len>>

\* close(fd_in) after the loop; mycat1 returns from main here.
Close ==
    /\ pc = "close"
    /\ \E r \in CloseRets :
        /\ close_ret' = r
        /\ fd_open' = FALSE
        /\ close_calls' = close_calls + 1
        /\ failed' = IF r = -1 THEN failed \cup {"close"} ELSE failed
        /\ IF CloseFailed(r)
           THEN /\ err' = Append(err, "close")
                /\ free_log' = ReleaseLog(variant)
                /\ heap' = ReleaseHeap(variant)
                /\ Exit(EXIT_FAILURE)
           ELSE /\ UNCHANGED <<err, free_log, heap>>
                /\ IF variant = 1
                   THEN Exit(EXIT_SUCCESS)
                   ELSE pc' = "free" /\ exit_code' = exit_code
    /\ UNCHANGED <<envVars, pos, bytes_read, bytes_written, bufc, out, buffer,
                   buffer_size, mem, harnessVars, open_ret, malloc_req, malloc_ret,
                   page_used, fadvise_ret, reads, pos_reads, short_reads, writes, rdata, wreq,
                   alloc_size, read_len>>

\* free(buffer) or align_free(buffer), and the return from main.
Free ==
    /\ pc = "free"
    /\ free_log' = ReleaseLog(variant)
    /\ heap' = ReleaseHeap(variant)
    /\ Exit(EXIT_SUCCESS)
    /\ UNCHANGED <<envVars, ioVars, buffer, buffer_size, err, mem, harnessVars, logVars>>

Next ==
    \/ CheckArgs
    \/ Open
    \/ Fadvise
    \/ BlockSize
    \/ Malloc
    \/ AlignAlloc
    \/ Read
    \/ Write
    \/ Close
    \/ Free

Spec == Init /\ [][Next]_vars

(***************************************************************************)
(* The allocator alone: a caller that allocates aligned buffers of any     *)
(* size and frees them in any order, as an allocation-tracking test of     *)
(* align_alloc and align_free does.  Each buffer held is a record of the   *)
(* pointer align_alloc returned and of what malloc was asked and gave.     *)
(***************************************************************************)
\* How many times the caller calls align_alloc.
MaxAllocs == 2
\* The sizes asked for: small, a page, the fixed buffer, the largest size_t.
AllocSizes == {1, 9, 4096, OPTIMAL_BUFFER_SIZE, SizeMax - 4095, SizeMax}
\* What sysconf(_SC_PAGESIZE) returns to the allocator: -1 or a power of two.
AllocSysconfRets == {-1, 1, 16, 4096}
\* Where malloc places a block.
AllocRawStarts == {8, 16, 4088, 4089, 4096, LongMax}

InitAlloc ==
    /\ variant = 4
    /\ argc = 2
    /\ sysconf_ret \in AllocSysconfRets
    /\ fstat_ret = 0
    /\ st_blksize = 0
    /\ fileLen = 0
    /\ pc = "harness"
    /\ exit_code = Running
    /\ fd_open = FALSE
    /\ pos = 0
    /\ buffer = NullPtr
    /\ buffer_size = 0
    /\ bytes_read = 0
    /\ bytes_written = 0
    /\ bufc = <<>>
    /\ out = <<>>
    /\ err = <<>>
    /\ heap = {}
    /\ mem = [a \in {} |-> NullPtr]
    /\ free_log = <<>>
    /\ live = {}
    /\ allocs = 0
    /\ null_frees = 0
    /\ expect_log = <<>>
    /\ wrapped = FALSE
    /\ open_ret = Unset
    /\ malloc_req = Unset
    /\ malloc_ret = Unset
    /\ page_used = Unset
    /\ fadvise_ret = Unset
    /\ close_ret = Unset
    /\ close_calls = 0
    /\ reads = 0
    /\ pos_reads = 0
    /\ short_reads = 0
    /\ writes = 0
    /\ rdata = <<>>
    /\ wreq = <<>>
    /\ failed = {}
    /\ alloc_size = Unset
    /\ read_len = Unset

\* p = align_alloc(size): malloc fails and p is NULL, or p is kept.
CallAlignAlloc ==
    /\ pc = "harness"
    /\ allocs < MaxAllocs
    /\ Cardinality(live) < MaxLive
    /\ \E size \in AllocSizes :
        LET page_size == get_system_page_size(sysconf_ret)
            request == MallocRequest(size, page_size)
        IN  \E p \in {NullPtr} \cup {r \in AllocRawStarts : Fits(heap, r, request)} :
             LET aligned_ptr == AlignedAddr(p, page_size)
             IN  /\ allocs' = allocs + 1
                 /\ alloc_size' = size
                 /\ page_used' = page_size
                 /\ malloc_req' = request
                 /\ malloc_ret' = p
                 /\ wrapped' = (wrapped \/ request # size + page_size - 1 + PointerWidth)
                 /\ IF p = NullPtr
                    THEN UNCHANGED <<mem, heap, live>>
                    ELSE /\ \E kept \in StashOutcomes(p, request, aligned_ptr) :
                              mem' = WriteMem(mem, StashSlot(aligned_ptr), kept)
                         /\ heap' = heap \cup {[base |-> p, len |-> request]}
                         /\ live' = live \cup {[ptr |-> aligned_ptr, size |-> size,
                                               page |-> page_size, raw |-> p,
                                               len |-> request]}
    /\ UNCHANGED <<envVars, pc, exit_code, ioVars, buffer, buffer_size, err, free_log,
                   null_frees, expect_log, open_ret, fadvise_ret, close_ret,
                   close_calls, reads, pos_reads, short_reads, writes, rdata, wreq,
                   failed,
                   read_len>>

\* align_free(p) for a buffer p that is held.
CallAlignFree ==
    /\ pc = "harness"
    /\ \E r \in live :
        /\ free_log' = AlignFreeLog(free_log, mem, r.ptr)
        /\ heap' = AlignFreeHeap(heap, mem, r.ptr)
        /\ expect_log' = Append(expect_log, r.raw)
        /\ live' = live \ {r}
    /\ UNCHANGED <<envVars, pc, exit_code, ioVars, buffer, buffer_size, err, mem,
                   allocs, null_frees, wrapped, logVars>>

\* align_free(NULL)
CallAlignFreeNull ==
    /\ pc = "harness"
    /\ null_frees = 0
    /\ null_frees' = null_frees + 1
    /\ free_log' = AlignFreeLog(free_log, mem, NullPtr)
    /\ heap' = AlignFreeHeap(heap, mem, NullPtr)
    /\ UNCHANGED <<envVars, pc, exit_code, ioVars, buffer, buffer_size, err, mem,
                   live, allocs, expect_log, wrapped, logVars>>

NextAlloc ==
    \/ CallAlignAlloc
    \/ CallAlignFree
    \/ CallAlignFreeNull

SpecAlloc == InitAlloc /\ [][NextAlloc]_vars

(***************************************************************************)
(* What the claims speak of.                                               *)
(***************************************************************************)
Exited == pc = "exited"
\* The input handle was opened; the buffer was allocated.
Opened == open_ret >= 0
Allocated == malloc_ret > NullPtr
\* The lines written to the error stream.
ErrLines == {err[i] : i \in 1..Len(err)}
\* The page size of the environment, 4096 standing in for a failed query.
EffectivePage == IF sysconf_ret = -1 THEN 4096 ELSE sysconf_ret
\* io_blocksize has returned (mycat1 has no io_blocksize).
BlockSizeKnown == variant # 1 /\ buffer_size # 0

(***************************************************************************)
(* C1.  When no open, read, write, close or allocation call fails (and     *)
(* the program was given its one path), the bytes on standard output at    *)
(* exit are exactly the bytes of the file, for every variant, every file   *)
(* length and every pattern of short reads.                                *)
(***************************************************************************)
CopyIsIdentical ==
    Exited /\ failed = {} => out = FileBytes(fileLen)

\* A run of the filesystem-aware variant over a file one byte longer than its
\* buffer, with a short read, that copied the file.
CopyIsIdenticalWitness ==
    /\ Exited
    /\ failed = {}
    /\ variant = 4
    /\ fileLen = buffer_size + 1
    /\ short_reads > 0
    /\ reads >= 3
    /\ out = FileBytes(fileLen)

(***************************************************************************)
(* C2.  At exit the exit code is 0 exactly when nothing failed: it is 1    *)
(* when the argument count is wrong, the open fails, the allocation fails, *)
(* a read returns an error, a write returns another count than asked for,  *)
(* or the final close fails; it is 0 otherwise.                            *)
(***************************************************************************)
ExitCodeIffNoFailure ==
    Exited => /\ exit_code \in {EXIT_SUCCESS, EXIT_FAILURE}
              /\ exit_code = EXIT_SUCCESS <=> failed = {}

\* The final close failed after every byte was copied: exit code 1.
ExitCodeWitness ==
    /\ Exited
    /\ failed = {"close"}
    /\ exit_code = EXIT_FAILURE
    /\ fileLen > 0
    /\ out = FileBytes(fileLen)

(***************************************************************************)
(* C3.  close is called at most once, free at most once and only with the  *)
(* pointer malloc returned; at exit close was called exactly once if the   *)
(* file was opened, and free exactly once if the buffer was allocated.     *)
(***************************************************************************)
ReleasedExactlyOnce ==
    /\ close_calls <= (IF Opened THEN 1 ELSE 0)
    /\ Len(free_log) <= (IF Allocated THEN 1 ELSE 0)
    /\ \A i \in 1..Len(free_log) : free_log[i] = malloc_ret
    /\ Exited => /\ close_calls = (IF Opened THEN 1 ELSE 0)
                 /\ Len(free_log) = (IF Allocated THEN 1 ELSE 0)
                 /\ heap = {}
                 /\ ~fd_open

\* An exit after a failed write, with an aligned buffer: one close, one free.
ReleasedWitness ==
    /\ Exited
    /\ Aligns(variant)
    /\ "write" \in failed
    /\ close_calls = 1
    /\ free_log = <<malloc_ret>>
    /\ buffer # malloc_ret

(***************************************************************************)
(* C4.  As claimed: every buffer align_alloc returned starts at a multiple *)
(* of the page size, leaves the pointer-wide slot before it inside the raw *)
(* block, and has its size bytes inside the raw block, whatever the size   *)
(* asked for, the page size and the place of the raw block.                *)
(***************************************************************************)
AlignedWithinRaw ==
    \A r \in live :
        /\ r.ptr % r.page = 0
        /\ r.ptr >= r.raw + PointerWidth
        /\ r.ptr + r.size <= r.raw + r.len

\* The same of the buffers whose request size + page_size - 1 + sizeof(void*)
\* did not wrap around in size_t.
AlignedWithinRawUnlessWrapped ==
    \A r \in live :
        r.size + r.page - 1 + PointerWidth <= SizeMax =>
            /\ r.ptr % r.page = 0
            /\ r.ptr >= r.raw + PointerWidth
            /\ r.ptr + r.size <= r.raw + r.len

(***************************************************************************)
(* C5.  As claimed: the calls of free are, in order, the raw pointers of   *)
(* the buffers given to align_free; with no buffer held no raw block is    *)
(* left; align_free(NULL) calls free not at all.                           *)
(***************************************************************************)
FreeRestoresRaw ==
    /\ free_log = expect_log
    /\ live = {} => heap = {}

\* The same as long as no request wrapped around in size_t.
FreeRestoresRawUnlessWrapped ==
    ~wrapped => FreeRestoresRaw

\* Two buffers of different sizes allocated and freed, and align_free(NULL) called.
FreeRestoresRawReached ==
    /\ ~wrapped
    /\ live = {}
    /\ null_frees = 1
    /\ Len(free_log) = 2
    /\ free_log[1] # free_log[2]

(***************************************************************************)
(* C6.  When the page-size query fails the run is that of an environment   *)
(* reporting 4096: the same block size, the same over-allocation, the same *)
(* alignment modulus; the process exits with a failure only if a call      *)
(* failed, and otherwise with the file copied.                             *)
(***************************************************************************)
FallbackActsAs4096 ==
    sysconf_ret = -1 =>
        /\ BlockSizeKnown =>
             buffer_size = BlockSizeOf(variant, 4096, fstat_ret, st_blksize)
        /\ page_used # Unset =>
             /\ page_used = 4096
             /\ malloc_req = buffer_size + 4096 - 1 + PointerWidth
             /\ buffer % 4096 = 0
        /\ Exited => /\ exit_code = EXIT_SUCCESS <=> failed = {}
                     /\ failed = {} => out = FileBytes(fileLen)

\* The query failed; the filesystem-aware variant went on with 4096 and copied
\* a file of more than one buffer.
FallbackWitness ==
    /\ sysconf_ret = -1
    /\ variant = 4
    /\ "warn_pagesize" \in ErrLines
    /\ buffer_size = 4096
    /\ page_used = 4096
    /\ buffer # NullPtr
    /\ Exited
    /\ exit_code = EXIT_SUCCESS
    /\ fileLen > 4096
    /\ out = FileBytes(fileLen)

(***************************************************************************)
(* C7.  In mycat4 io_blocksize returns max(page size, st_blksize) when     *)
(* fstat succeeds with a positive st_blksize and the page size otherwise;  *)
(* the result is never below the page size; a failed fstat alone does not  *)
(* end the process.                                                        *)
(***************************************************************************)
FsAwareBlockSize ==
    variant = 4 =>
        /\ pc \in {"alloc", "read", "write", "close", "free"} => BlockSizeKnown
        /\ BlockSizeKnown =>
             /\ buffer_size >= EffectivePage
             /\ buffer_size = IF fstat_ret = 0 /\ st_blksize > 0
                              THEN Max(EffectivePage, st_blksize)
                              ELSE EffectivePage
        /\ Exited /\ exit_code # EXIT_SUCCESS => failed # {}

\* fstat failed, the run went on with the page size and copied the file.
FsAwareWitness ==
    /\ variant = 4
    /\ fstat_ret = -1
    /\ "warn_fstat" \in ErrLines
    /\ buffer_size = EffectivePage
    /\ Exited
    /\ exit_code = EXIT_SUCCESS
    /\ fileLen > 0
    /\ out = FileBytes(fileLen)

(***************************************************************************)
(* C8.  write is called once for each read that returned N > 0, with those *)
(* N bytes, and never after a read that returned 0.                        *)
(***************************************************************************)
WritePerRead ==
    /\ writes = IF pc = "write" THEN pos_reads - 1 ELSE pos_reads
    /\ wreq = IF pc = "write"
              THEN TakeBytes(rdata, NBytes(rdata) - bytes_read)
              ELSE rdata
    /\ reads > 0 /\ bytes_read = 0 => pc \notin {"read", "write"}

\* C8 as claimed: a zero-length file, whose first read returns 0, ends the loop
\* with no write and nothing on standard output, and the program exits 0.
ZeroLengthExitsZero ==
    /\ fileLen = 0 /\ reads >= 1 /\ bytes_read = 0 =>
         /\ reads = 1
         /\ writes = 0
         /\ out = <<>>
         /\ pc \in {"close", "free", "exited"}
         /\ Exited => exit_code = EXIT_SUCCESS
    /\ WritePerRead

\* C8 as amended: the same, the exit code being 0 when the final close succeeds
\* and 1 when it fails; no write and no output for a zero-length file in any run.
ZeroLengthNoWrite ==
    /\ fileLen = 0 => reads <= 1 /\ writes = 0 /\ out = <<>>
    /\ fileLen = 0 /\ reads >= 1 /\ bytes_read = 0 =>
         /\ pc \in {"close", "free", "exited"}
         /\ Exited => exit_code = (IF close_ret = 0 THEN EXIT_SUCCESS ELSE EXIT_FAILURE)
    /\ WritePerRead

\* A zero-length file: one read, which returned 0, no write, exit code 0.
ZeroLengthWitness ==
    /\ fileLen = 0
    /\ reads = 1
    /\ bytes_read = 0
    /\ writes = 0
    /\ out = <<>>
    /\ Exited
    /\ exit_code = EXIT_SUCCESS

(***************************************************************************)
(* C9.  As claimed: in mycat6, when posix_fadvise reports an error, a      *)
(* warning is written to the error stream, and the run goes on as when the *)
(* hint succeeds.                                                          *)
(***************************************************************************)
FadviseFailureWarned ==
    variant = 6 /\ fadvise_ret > 0 =>
        /\ "warn_fadvise" \in ErrLines
        /\ "fadvise_ok" \notin ErrLines
        /\ Exited /\ exit_code # EXIT_SUCCESS => failed # {}

(***************************************************************************)
(* C10.  Once a write has returned another count than the bytes read, the  *)
(* process has exited with a non-zero code, having made no further read    *)
(* or write, with the handle closed once and the buffer freed once, and    *)
(* standard output holds a strict prefix of the file.                      *)
(***************************************************************************)
ShortWriteIsTerminal ==
    "write" \in failed =>
        /\ Exited
        /\ exit_code # EXIT_SUCCESS
        /\ writes = pos_reads
        /\ reads = pos_reads
        /\ bytes_written # bytes_read
        /\ ~fd_open
        /\ close_calls = 1
        /\ heap = {}
        /\ Len(free_log) = (IF variant = 1 THEN 0 ELSE 1)
        /\ IsStrictPrefix(out, fileLen)

\* A write in the second pass of the loop took only a part of the bytes.
ShortWriteWitness ==
    /\ "write" \in failed
    /\ variant = 5
    /\ writes = 2
    /\ 0 < bytes_written
    /\ bytes_written < bytes_read
    /\ NBytes(out) = buffer_size + bytes_written
    /\ Exited

(***************************************************************************)
(* C11.  As claimed: in mycat4, mycat5 and mycat6 the size passed to       *)
(* align_alloc, which is also the length of every read, is at least the    *)
(* page size align_alloc aligns to, whatever page size the probe returns.  *)
(***************************************************************************)
BufferAtLeastPage ==
    Aligns(variant) /\ page_used # Unset =>
        /\ alloc_size = buffer_size
        /\ reads > 0 => read_len = buffer_size
        /\ alloc_size >= page_used

\* C11 as amended: the same in mycat4 for every page size; in mycat5 and mycat6
\* the size is the fixed 2 MiB, at least the page size when that is at most 2 MiB.
BufferAtLeastPageUpToFixed ==
    Aligns(variant) /\ page_used # Unset =>
        /\ alloc_size = buffer_size
        /\ reads > 0 => read_len = buffer_size
        /\ variant = 4 => alloc_size >= page_used
        /\ variant \in {5, 6} =>
             /\ alloc_size = OPTIMAL_BUFFER_SIZE
             /\ page_used <= OPTIMAL_BUFFER_SIZE => alloc_size >= page_used

\* mycat4 under a page above 2 MiB and an st_blksize of 512: the buffer
\* allocated and read into is one page.
BufferAtLeastPageWitness ==
    /\ variant = 4
    /\ page_used > OPTIMAL_BUFFER_SIZE
    /\ fstat_ret = 0
    /\ st_blksize = 512
    /\ alloc_size = page_used
    /\ buffer # NullPtr
    /\ reads > 0
    /\ read_len = page_used

====
